---- MODULE Spec2Model ----
(***************************************************************************)
(* A model of qtPicColor: the colour extractor (core/color_analyzer.py),   *)
(* the result model (core/models.py) and the parts of the application that *)
(* handle the results.                                                     *)
(*                                                                         *)
(* Python floats are IEEE-754 binary64.  The extractor's percentages and   *)
(* its scale factor are computed in them, so the model carries them as     *)
(* exact binary64 values (a 53-bit mantissa held in six limbs, and an      *)
(* exponent) and rounds every operation to nearest, ties to even.          *)
(***************************************************************************)
EXTENDS Integers, Sequences, FiniteSets, TLC

(***************************************************************************)
(* binary64 arithmetic                                                     *)
(*                                                                         *)
(* A positive double is [m |-> <<l1,..,l6>>, e |-> e] and stands for       *)
(*   (l1*2^50 + l2*2^40 + l3*2^30 + l4*2^20 + l5*2^10 + l6) * 2^e          *)
(* with l1 in 4..7 and l2..l6 in 0..1023: a mantissa in [2^52, 2^53).      *)
(***************************************************************************)
Base == 2^10

\* 1.0
FOne == [m |-> <<4, 0, 0, 0, 0, 0>>, e |-> -52]

\* p doubled until it reaches t, with the number of doublings
RECURSIVE NormShift(_, _, _)
NormShift(p, t, s) == IF p >= t THEN <<p, s>> ELSE NormShift(2 * p, t, s + 1)

\* the next n base-2^10 digits of r / t (for r < t), and the last remainder
RECURSIVE DivLimbs(_, _, _)
DivLimbs(r, t, n) ==
    IF n = 0 THEN <<<<>>, r>>
    ELSE LET rest == DivLimbs((r * Base) % t, t, n - 1)
         IN  <<<<(r * Base) \div t>> \o rest[1], rest[2]>>

\* the limbs m with one added at limb i, carrying to the left
RECURSIVE IncLimbs(_, _)
IncLimbs(m, i) ==
    IF i = 1 THEN [m EXCEPT ![1] = m[1] + 1]
    ELSE IF m[i] = Base - 1 THEN IncLimbs([m EXCEPT ![i] = 0], i - 1)
    ELSE [m EXCEPT ![i] = m[i] + 1]

\* the double of mantissa m and exponent e, rounded up by one unit when up
RoundUp(m, e, up) ==
    IF ~up THEN [m |-> m, e |-> e]
    ELSE LET n == IncLimbs(m, 6)
         IN  IF n[1] = 8 THEN [m |-> <<4, 0, 0, 0, 0, 0>>, e |-> e + 1]
             ELSE [m |-> n, e |-> e]

\* p / t for Python ints 0 < p <= t < 2^20: the correctly rounded quotient
FDivInt(p, t) ==
    LET ns == NormShift(p, t, 0)
        p4 == 4 * ns[1]
        dl == DivLimbs(p4 % t, t, 5)
        m  == <<p4 \div t>> \o dl[1]
        r  == dl[2]
    IN  RoundUp(m, -ns[2] - 52, 2 * r > t \/ (2 * r = t /\ m[6] % 2 = 1))

\* limbs m[1..i] times n plus carry; the first limb of the result is not reduced
RECURSIVE MulLimbs(_, _, _, _)
MulLimbs(m, n, i, carry) ==
    LET v == m[i] * n + carry
    IN  IF i = 1 THEN <<v>>
        ELSE MulLimbs(m, n, i - 1, v \div Base) \o <<v % Base>>

RECURSIVE Log2(_)
Log2(n) == IF n < 2 THEN 0 ELSE 1 + Log2(n \div 2)

\* the limbs P shifted right by b < 10 bits, from limb i on
RECURSIVE ShiftRightFrom(_, _, _)
ShiftRightFrom(P, b, i) ==
    IF i > Len(P) THEN <<>>
    ELSE <<(IF i = 1 THEN P[1] \div 2^b
            ELSE (P[i - 1] % 2^b) * 2^(10 - b) + P[i] \div 2^b)>>
         \o ShiftRightFrom(P, b, i + 1)

\* the limbs P shifted right by k < 30 bits
ShiftRight(P, k) ==
    LET Q == IF k < 10 THEN P
             ELSE IF k < 20
             THEN <<P[1] \div Base, P[1] % Base, P[2], P[3], P[4], P[5]>>
             ELSE <<P[1] \div (Base * Base), (P[1] \div Base) % Base,
                    P[1] % Base, P[2], P[3], P[4]>>
    IN  ShiftRightFrom(Q, k % 10, 1)

\* P * 2^e brought back to a 53-bit mantissa, rounding to nearest even; the
\* first limb of P is at most 23 bits long
RoundShift(P, e) ==
    LET k    == Log2(P[1]) - 2
        low  == (P[5] * Base + P[6]) % 2^k
        Q    == ShiftRight(P, k)
    IN  IF k = 0 THEN [m |-> P, e |-> e]
        ELSE RoundUp(Q, e + k,
                     \/ low > 2^(k - 1)
                     \/ low = 2^(k - 1) /\ Q[6] % 2 = 1)

\* x * n for a double x and a Python int 0 < n < 2^20
FMulInt(x, n) == RoundShift(MulLimbs(x.m, n, 6, 0), x.e)

\* the value of the first j <= 3 limbs of m
RECURSIVE TopInt(_, _)
TopInt(m, j) == IF j = 0 THEN 0 ELSE TopInt(m, j - 1) * Base + m[j]

\* floor(M / 2^q) for the mantissa limbs m and 30 <= q
MantShift(m, q) ==
    IF q >= 10 * 6 THEN 0
    ELSE TopInt(m, 6 - q \div 10) \div 2^(q % 10)

\* int(x) for a double x < 2^22: truncation
FInt(x) == MantShift(x.m, -x.e)

\* x <= y for positive doubles
RECURSIVE LimbsLeq(_, _, _)
LimbsLeq(a, b, i) ==
    IF i > Len(a) THEN TRUE
    ELSE IF a[i] # b[i] THEN a[i] < b[i]
    ELSE LimbsLeq(a, b, i + 1)

FLeq(x, y) == x.e < y.e \/ (x.e = y.e /\ LimbsLeq(x.m, y.m, 1))

\* fl(c / s) >= n for Python ints c, n >= 1 and a double s <= 1: c / s is at
\* least the midpoint below n (a tie rounds to n, whose mantissa is even)
QuotAtLeast(c, s, n) ==
    LET P == MulLimbs(s.m, n, 6, 0)
        d == P[1] - c * 2^(-s.e - 50)
        k == Log2(n)
        q == IF n = 2^k THEN 54 - k ELSE 53 - k
    IN  \/ d < 0
        \/ /\ d = 0
           /\ P[2] = 0 /\ P[3] = 0 /\ P[4] = 0
           /\ P[5] * Base + P[6] <= MantShift(s.m, q)

\* int(c / s) for a Python int 0 <= c < 2^10 and a double 2^-11 < s <= 1
RECURSIVE QuotSearch(_, _, _, _)
QuotSearch(c, s, lo, hi) ==
    IF lo = hi THEN lo
    ELSE LET mid == (lo + hi + 1) \div 2
         IN  IF QuotAtLeast(c, s, mid) THEN QuotSearch(c, s, mid, hi)
             ELSE QuotSearch(c, s, lo, mid - 1)

FIntDiv(c, s) == IF c = 0 THEN 0 ELSE QuotSearch(c, s, 0, c * 2^(-s.e - 52))

(***************************************************************************)
(* Exact sums of doubles, in units of 2^-70 held in eight limbs.           *)
(***************************************************************************)
\* the limbs V shifted left by b < 10 bits, from limb i on
RECURSIVE ShiftLeftFrom(_, _, _)
ShiftLeftFrom(V, b, i) ==
    IF i > Len(V) THEN <<>>
    ELSE <<((V[i] * 2^b) % Base)
           + (IF i < Len(V) THEN (V[i + 1] * 2^b) \div Base ELSE 0)>>
         \o ShiftLeftFrom(V, b, i + 1)

\* the double x (2^-70 <= x < 2^10) in units of 2^-70
ToFixed(x) ==
    LET k == x.e + 70
        V == IF k < 10 THEN <<0, 0>> \o x.m
             ELSE IF k < 20 THEN <<0>> \o x.m \o <<0>>
             ELSE x.m \o <<0, 0>>
    IN  ShiftLeftFrom(V, k % 10, 1)

RECURSIVE AddLimbs(_, _, _, _)
AddLimbs(a, b, i, carry) ==
    LET v == a[i] + b[i] + carry
    IN  IF i = 1 THEN <<v>>
        ELSE AddLimbs(a, b, i - 1, v \div Base) \o <<v % Base>>

FixZero == <<0, 0, 0, 0, 0, 0, 0, 0>>

RECURSIVE FixSum(_)
FixSum(xs) ==
    IF xs = <<>> THEN FixZero
    ELSE AddLimbs(ToFixed(Head(xs)), FixSum(Tail(xs)), 8, 0)

(***************************************************************************)
(* Sums, differences and quotients of doubles, and the zero.               *)
(***************************************************************************)
\* 0.0: below every positive double
FZero == [m |-> <<0, 0, 0, 0, 0, 0>>, e |-> -1074]

FHalf == [m |-> <<4, 0, 0, 0, 0, 0>>, e |-> -53]

FTwo == [m |-> <<4, 0, 0, 0, 0, 0>>, e |-> -51]

FFour == [m |-> <<4, 0, 0, 0, 0, 0>>, e |-> -50]

FSix == [m |-> <<6, 0, 0, 0, 0, 0>>, e |-> -50]

\* the limbs a minus the limbs b <= a, from limb i to the left
RECURSIVE SubLimbs(_, _, _, _)
SubLimbs(a, b, i, borrow) ==
    LET v == a[i] - b[i] - borrow
    IN  IF i = 1 THEN <<v>>
        ELSE SubLimbs(a, b, i - 1, IF v < 0 THEN 1 ELSE 0)
             \o <<(v + Base) % Base>>

\* the limbs V with the carry of the first limb in a limb of its own
Carry(V) == <<V[1] \div Base, V[1] % Base>> \o Tail(V)

\* the number of bits of the limbs V, from limb i on
RECURSIVE BitLen(_, _)
BitLen(V, i) ==
    IF i > Len(V) THEN 0
    ELSE IF V[i] # 0 THEN Log2(V[i]) + 1 + 10 * (Len(V) - i)
    ELSE BitLen(V, i + 1)

\* bit j of the limbs V, bit 0 the lowest
BitAt(V, j) == (V[Len(V) - j \div 10] \div 2^(j % 10)) % 2

\* some bit of V below bit j is set
LowNonzero(V, j) ==
    \/ V[Len(V) - j \div 10] % 2^(j % 10) # 0
    \/ \E i \in (Len(V) - j \div 10 + 1)..Len(V) : V[i] # 0

\* the limbs V shifted right by k bits
ShiftBits(V, k) ==
    LET q == k \div 10
    IN  ShiftRightFrom(SubSeq(<<0, 0, 0, 0>>, 1, q) \o SubSeq(V, 1, Len(V) - q),
                       k % 10, 1)

\* the double nearest to V * 2^u, ties to even, for limbs V of 53 bits or more
FromLimbs(V, u) ==
    LET k == BitLen(V, 1) - 53
        Q == ShiftBits(V, k)
        M == SubSeq(Q, Len(Q) - 5, Len(Q))
    IN  RoundUp(M, u + k,
                /\ k > 0
                /\ BitAt(V, k - 1) = 1
                /\ (M[6] % 2 = 1 \/ (k > 1 /\ LowNonzero(V, k - 1))))

\* x + y for doubles 0 <= x, y < 2^10, the positive ones at least 2^-17
FAdd(x, y) ==
    IF x = FZero THEN y
    ELSE IF y = FZero THEN x
    ELSE FromLimbs(Carry(AddLimbs(ToFixed(x), ToFixed(y), 8, 0)), -70)

\* x - y for doubles 0 <= y <= x < 2^10 with x - y = 0 or x - y >= 2^-17
FSub(x, y) ==
    IF y = FZero THEN x
    ELSE IF x = y THEN FZero
    ELSE FromLimbs(SubLimbs(ToFixed(x), ToFixed(y), 8, 0), -70)

\* the next n bits of r / d for limbs r < d, behind the bits acc, and the
\* remainder
RECURSIVE DivBits(_, _, _, _)
DivBits(r, d, n, acc) ==
    IF n = 0 THEN <<acc, r>>
    ELSE LET r2  == AddLimbs(r, r, 6, 0)
             one == LimbsLeq(d, r2, 1)
         IN  DivBits(IF one THEN SubLimbs(r2, d, 6, 0) ELSE r2, d, n - 1,
                     2 * acc + (IF one THEN 1 ELSE 0))

\* the next i limbs of r / d for limbs r < d, and the remainder
RECURSIVE DivMant(_, _, _)
DivMant(r, d, i) ==
    IF i = 0 THEN <<<<>>, r>>
    ELSE LET b    == DivBits(r, d, 10, 0)
             rest == DivMant(b[2], d, i - 1)
         IN  <<<<b[1]>> \o rest[1], rest[2]>>

\* x / y for doubles x >= 0 and y > 0: the correctly rounded quotient
FDiv(x, y) ==
    IF x = FZero THEN FZero
    ELSE LET ge   == LimbsLeq(y.m, x.m, 1)
             r0   == IF ge THEN SubLimbs(x.m, y.m, 6, 0)
                     ELSE SubLimbs(AddLimbs(x.m, x.m, 6, 0), y.m, 6, 0)
             top  == DivBits(r0, y.m, 2, 1)
             rest == DivMant(top[2], y.m, 5)
             m    == <<top[1]>> \o rest[1]
             r2   == AddLimbs(rest[2], rest[2], 6, 0)
         IN  RoundUp(m, x.e - y.e - (IF ge THEN 52 ELSE 53),
                     \/ ~LimbsLeq(r2, y.m, 1)
                     \/ r2 = y.m /\ m[6] % 2 = 1)

\* x * n for a double x >= 0 and a Python int 0 < n < 2^20
FTimes(x, n) == IF x = FZero THEN FZero ELSE FMulInt(x, n)

FMax(x, y) == IF FLeq(x, y) THEN y ELSE x

FMin(x, y) == IF FLeq(x, y) THEN x ELSE y

(***************************************************************************)
(* core/models.py: the colour spaces of a ColorInfo.                       *)
(***************************************************************************)
\* x / 255.0 for a channel x
Channel(x) == IF x = 0 THEN FZero ELSE FDivInt(x, 255)

\* the sector's offset added to the size of the quotient, whatever its sign
HueSectorUnsigned(a, b, diff, k) ==
    FAdd(FDiv(IF FLeq(b, a) THEN FSub(a, b) ELSE FSub(b, a), diff), k)

\* (a - b) / diff + k for doubles a, b, diff and k in {0, 2, 4, 6}, with
\* |a - b| <= diff; k is 0 only when b <= a.  A negative quotient is the
\* negated quotient of b - a, and adding it to k is subtracting that from k
HueSector(a, b, diff, k) ==
    IF FLeq(b, a) THEN FAdd(FDiv(FSub(a, b), diff), k)
    ELSE FSub(k, FDiv(FSub(b, a), diff))

\* the hue before its division by 6, the same in hsl and hsv
HueSixth(r, g, b, max_val, diff) ==
    IF max_val = r THEN HueSector(g, b, diff, IF FLeq(b, g) THEN FZero ELSE FSix)
    ELSE IF max_val = g THEN HueSector(b, r, diff, FTwo)
    ELSE HueSector(r, g, diff, FFour)

\* ColorInfo.hsl
hsl(rgb) ==
    LET r       == Channel(rgb[1])
        g       == Channel(rgb[2])
        b       == Channel(rgb[3])
        max_val == FMax(FMax(r, g), b)
        min_val == FMin(FMin(r, g), b)
        diff    == FSub(max_val, min_val)
        sum     == FAdd(max_val, min_val)
        l       == IF sum = FZero THEN FZero ELSE [sum EXCEPT !.e = @ - 1]
        s       == IF diff = FZero THEN FZero
                   ELSE IF ~FLeq(l, FHalf)
                   THEN FDiv(diff, FSub(FSub(FTwo, max_val), min_val))
                   ELSE FDiv(diff, sum)
        h       == IF diff = FZero THEN FZero
                   ELSE FDiv(HueSixth(r, g, b, max_val, diff), FSix)
    IN  <<FTimes(h, 360), FTimes(s, 100), FTimes(l, 100)>>

\* ColorInfo.hsv
hsv(rgb) ==
    LET r       == Channel(rgb[1])
        g       == Channel(rgb[2])
        b       == Channel(rgb[3])
        max_val == FMax(FMax(r, g), b)
        min_val == FMin(FMin(r, g), b)
        diff    == FSub(max_val, min_val)
        s       == IF max_val = FZero THEN FZero ELSE FDiv(diff, max_val)
        h       == IF diff = FZero THEN FZero
                   ELSE FDiv(HueSixth(r, g, b, max_val, diff), FSix)
    IN  <<FTimes(h, 360), FTimes(s, 100), FTimes(max_val, 100)>>

(***************************************************************************)
(* Bounds of the model.                                                    *)
(***************************************************************************)
\* an image is made of at most MaxRuns runs of one colour, in raster order
MaxRuns == 3

\* the runs of an image of more than SmallPixels pixels end at multiples of
\* 1/Parts of its pixels
Parts == 4

SmallPixels == 9

\* a random draw from more than MaxRand values is sampled at its two ends
MaxRand == 2

\* the number of AnalysisThread objects created in one run of the application
MaxAnalyses == 2

\* the clock ticks Ticks times a second
Ticks == 2

\* the number of calls of a HistoryManager in one run
MaxCalls == 3

\* images are pasted during the first MaxPastes periods of the cleanup timer,
\* one at most in each
MaxPastes == 2

\* the number of timeouts of the cleanup timer in one run
MaxTimeouts == 14

(***************************************************************************)
(* Inputs: the analyzer's configuration and the image files.               *)
(***************************************************************************)
DefaultMaxColors == 16

DefaultMinPixels == 100

MaxColorsChoices == {1, 2, DefaultMaxColors}

MinPixelsChoices == {2, 20, DefaultMinPixels}

Red == <<255, 0, 0>>

Palette == {Red, <<250, 9, 16>>, <<0, 10, 171>>}

\* width and height of the files
Sizes ==
    {<<1, 1>>, <<2, 1>>, <<1, 3>>, <<3, 3>>, <<100, 100>>,
     <<1600, 800>>, <<539, 1078>>, <<1601, 1>>}

Max(a, b) == IF a >= b THEN a ELSE b

Min(a, b) == IF a <= b THEN a ELSE b

(***************************************************************************)
(* extract_colors_by_pixel_count: the downscale step.                      *)
(***************************************************************************)
MaxSize == 800

\* scale_factor
ScaleFactor(w, h) ==
    IF Max(w, h) > MaxSize THEN FDivInt(MaxSize, Max(w, h)) ELSE FOne

\* the size of the image the histogram is taken of: image.size, or new_size
NewSize(w, h) ==
    IF Max(w, h) > MaxSize
    THEN <<FInt(FMulInt(ScaleFactor(w, h), w)), FInt(FMulInt(ScaleFactor(w, h), h))>>
    ELSE <<w, h>>

\* Image.resize raises ValueError for a size with a zero side
ResizeRaises(w, h) == NewSize(w, h)[1] < 1 \/ NewSize(w, h)[2] < 1

(***************************************************************************)
(* Image files.  A readable file of size w x h decodes, converts and       *)
(* resizes to the RGB array img_array of NewSize(w, h); the model holds    *)
(* that array as runs of one colour in raster order: cuts are the raster   *)
(* indices at which a new run starts and col the colours of the runs.      *)
(***************************************************************************)
SampledPixels(w, h) == NewSize(w, h)[1] * NewSize(w, h)[2]

CutPoints(T) ==
    IF T <= SmallPixels THEN 1..(T - 1)
    ELSE {(k * T) \div Parts : k \in 1..(Parts - 1)}

CutSets(T) == {C \in SUBSET CutPoints(T) : Cardinality(C) < MaxRuns}

RunColours(n) ==
    {c \in [1..n -> Palette] : \A k \in 1..(n - 1) : c[k] # c[k + 1]}

UnreadableFile == [ok |-> FALSE, w |-> 0, h |-> 0, cuts |-> {}, col |-> <<>>]

ReadableFiles ==
    UNION {
        IF ResizeRaises(sz[1], sz[2])
        THEN {[ok |-> TRUE, w |-> sz[1], h |-> sz[2], cuts |-> {}, col |-> <<>>]}
        ELSE UNION {
                {[ok |-> TRUE, w |-> sz[1], h |-> sz[2], cuts |-> C, col |-> c] :
                    c \in RunColours(Cardinality(C) + 1)} :
                C \in CutSets(SampledPixels(sz[1], sz[2]))}
        : sz \in Sizes}

Files == ReadableFiles \cup {UnreadableFile}

\* the elements of a set of integers in increasing order
RECURSIVE SortedSeq(_)
SortedSeq(S) ==
    IF S = {} THEN <<>>
    ELSE LET lo == CHOOSE a \in S : \A b \in S : a <= b
         IN  <<lo>> \o SortedSeq(S \ {lo})

\* the runs of img_array: colour, first raster index, one past the last
RECURSIVE RunsFrom(_, _, _)
RunsFrom(col, b, k) ==
    IF k > Len(col) THEN <<>>
    ELSE <<[rgb |-> col[k], from |-> b[k], to |-> b[k + 1]]>> \o RunsFrom(col, b, k + 1)

Runs(img) ==
    RunsFrom(img.col, <<0>> \o SortedSeq(img.cuts) \o <<SampledPixels(img.w, img.h)>>, 1)

\* the colour of the pixel (x, y) of img_array
PixelAt(img, x, y) ==
    LET i == y * NewSize(img.w, img.h)[1] + x
        r == Runs(img)
    IN  r[CHOOSE k \in 1..Len(r) : r[k].from <= i /\ i < r[k].to].rgb

(***************************************************************************)
(* extract_colors_by_pixel_count: histogram, threshold, ranking.           *)
(***************************************************************************)
\* the colours of the runs before run k
SeenBefore(r, k) == {r[j].rgb : j \in 1..(k - 1)}

\* the number of pixels of colour c
CountOf(r, c) ==
    LET RECURSIVE Sum(_)
        Sum(k) == IF k = 0 THEN 0
                  ELSE Sum(k - 1) + (IF r[k].rgb = c THEN r[k].to - r[k].from ELSE 0)
    IN  Sum(Len(r))

\* _count_colors: a Counter, which keeps its keys in the order of their first
\* occurrence; here the sequence of its items
RECURSIVE CountItems(_, _)
CountItems(r, k) ==
    IF k > Len(r) THEN <<>>
    ELSE (IF r[k].rgb \in SeenBefore(r, k) \/ r[k].to = r[k].from THEN <<>>
          ELSE <<[rgb |-> r[k].rgb, count |-> CountOf(r, r[k].rgb)]>>)
         \o CountItems(r, k + 1)

CountColors(img) == CountItems(Runs(img), 1)

\* the items with count >= threshold, in the order of the dictionary
FilterColors(items, threshold) == SelectSeq(items, LAMBDA it : it.count >= threshold)

MinKept == 3

\* a retry that adds its colours to those already kept
FilteredColorsAppended(items, minPixels) ==
    IF Len(FilterColors(items, minPixels)) < MinKept
    THEN FilterColors(items, minPixels) \o FilterColors(items, Max(1, minPixels \div 10))
    ELSE FilterColors(items, minPixels)

\* a retry that is repeated with threshold 1 while too few colours are kept
FilteredColorsRetriedTwice(items, minPixels) ==
    IF Len(FilterColors(items, minPixels)) >= MinKept
    THEN FilterColors(items, minPixels)
    ELSE IF Len(FilterColors(items, Max(1, minPixels \div 10))) >= MinKept
    THEN FilterColors(items, Max(1, minPixels \div 10))
    ELSE FilterColors(items, 1)

\* filtered_colors, after the retry with the lower threshold
FilteredColors(items, minPixels) ==
    IF Len(FilterColors(items, minPixels)) < MinKept
    THEN FilterColors(items, Max(1, minPixels \div 10))
    ELSE FilterColors(items, minPixels)

\* it put into the sequence s, sorted by count descending, behind the items of
\* the same count (sorted() is stable, also with reverse=True)
RECURSIVE InsertDesc(_, _)
InsertDesc(s, it) ==
    IF s = <<>> THEN <<it>>
    ELSE IF Head(s).count >= it.count THEN <<Head(s)>> \o InsertDesc(Tail(s), it)
    ELSE <<it>> \o s

RECURSIVE SortFrom(_, _)
SortFrom(items, k) ==
    IF k = 0 THEN <<>> ELSE InsertDesc(SortFrom(items, k - 1), items[k])

\* a ranking that leaves the dictionary's order
SortedColorsUnsorted(items) == items

\* sorted_colors
SortedColors(items) == SortFrom(items, Len(items))

\* a ranking that is not cut
TruncatedNot(items, maxColors) == items

\* a cut that keeps the end of the ranking
TruncatedLast(items, maxColors) ==
    SubSeq(items, Len(items) - Min(Len(items), maxColors) + 1, Len(items))

\* sorted_colors[:max_colors], for max_colors >= 0
Truncated(items, maxColors) == SubSeq(items, 1, Min(Len(items), maxColors))

\* a percentage scaled to 101
PercentageOf101(count, total) == FMulInt(FDivInt(count, total), 101)

\* percentage = (pixel_count / total_pixels) * 100
Percentage(count, total) == FMulInt(FDivInt(count, total), 100)

(***************************************************************************)
(* _rgb_to_hex and _create_default_color                                   *)
(***************************************************************************)
HexDigits ==
    <<"0", "1", "2", "3", "4", "5", "6", "7", "8", "9", "A", "B", "C", "D", "E", "F">>

\* a format without the zero padding
Hex2Unpadded(c) ==
    IF c < 16 THEN <<HexDigits[c + 1]>>
    ELSE <<HexDigits[(c \div 16) + 1], HexDigits[(c % 16) + 1]>>

\* format(c, "02X") for 0 <= c <= 255
Hex2(c) == <<HexDigits[(c \div 16) + 1], HexDigits[(c % 16) + 1]>>

\* hex codes are kept as sequences of characters
RgbToHex(rgb) == <<"#">> \o Hex2(rgb[1]) \o Hex2(rgb[2]) \o Hex2(rgb[3])

FHundred == [m |-> <<6, 256, 0, 0, 0, 0>>, e |-> -46]

\* a default colour that is not the documented gray
CreateDefaultColorBlack ==
    [rgb |-> <<0, 0, 0>>,
     hex_code |-> <<"#", "0", "0", "0", "0", "0", "0">>,
     percentage |-> FHundred,
     position |-> <<0, 0>>]

CreateDefaultColor ==
    [rgb |-> <<128, 128, 128>>,
     hex_code |-> <<"#", "8", "0", "8", "0", "8", "0">>,
     percentage |-> FHundred,
     position |-> <<0, 0>>]

(***************************************************************************)
(* _find_color_position                                                    *)
(***************************************************************************)
SimilarityThreshold == 30

\* np.linalg.norm(pixel - target) < 30; the squared distance is an integer and
\* the square root is monotonic, so this is the comparison of the squares
Similar(a, b) ==
    (a[1] - b[1]) * (a[1] - b[1]) + (a[2] - b[2]) * (a[2] - b[2])
      + (a[3] - b[3]) * (a[3] - b[3]) < SimilarityThreshold * SimilarityThreshold

\* the sums of x and of y over the raster indices below n, rows being W wide
SumXBelow(n, W) ==
    (n \div W) * ((W * (W - 1)) \div 2) + ((n % W) * ((n % W) - 1)) \div 2

SumYBelow(n, W) ==
    W * (((n \div W) * ((n \div W) - 1)) \div 2) + (n \div W) * (n % W)

\* mask, as the runs it is made of
MaskRuns(img, target) == SelectSeq(Runs(img), LAMBDA r : Similar(r.rgb, target))

RECURSIVE MaskCount(_, _)
MaskCount(r, k) ==
    IF k = 0 THEN 0 ELSE MaskCount(r, k - 1) + r[k].to - r[k].from

RECURSIVE MaskSumX(_, _, _)
MaskSumX(r, k, W) ==
    IF k = 0 THEN 0
    ELSE MaskSumX(r, k - 1, W) + SumXBelow(r[k].to, W) - SumXBelow(r[k].from, W)

RECURSIVE MaskSumY(_, _, _)
MaskSumY(r, k, W) ==
    IF k = 0 THEN 0
    ELSE MaskSumY(r, k - 1, W) + SumYBelow(r[k].to, W) - SumYBelow(r[k].from, W)

\* max(0, min(v, limit - 1))
Clamp(v, limit) == Max(0, Min(v, limit - 1))

\* the try block: the centroid of the mask mapped back to the original image,
\* or the centre of the image when the mask is empty.  int(np.mean(.)) is the
\* floor of the exact mean: the mean of at most 2^20 integers below 2^10 is
\* further from the next integer than a double's rounding can reach.
FindColorPosition(img, target) ==
    LET W  == NewSize(img.w, img.h)[1]
        mr == MaskRuns(img, target)
        n  == MaskCount(mr, Len(mr))
        cx == MaskSumX(mr, Len(mr), W) \div n
        cy == MaskSumY(mr, Len(mr), W) \div n
        sf == ScaleFactor(img.w, img.h)
    IN  IF n > 0
        THEN <<Clamp(FIntDiv(cx, sf), img.w), Clamp(FIntDiv(cy, sf), img.h)>>
        ELSE <<img.w \div 2, img.h \div 2>>

\* random.randint(lo, hi), sampled at its ends when the range is long
RandInt(lo, hi) == IF hi - lo < MaxRand THEN lo..hi ELSE {lo, hi}

\* a draw up to the full width and height
FallbackPositionsWide(w, h) == RandInt(w \div 4, w) \X RandInt(h \div 4, h)

\* the except block: a random position
FallbackPositions(w, h) ==
    RandInt(w \div 4, (w * 3) \div 4) \X RandInt(h \div 4, (h * 3) \div 4)

(***************************************************************************)
(* The analyzer and one call of it.                                        *)
(***************************************************************************)
VARIABLES
    max_colors,     \* ColorAnalyzer.max_colors
    min_pixels,     \* ColorAnalyzer.min_pixels
    image,          \* the file at image_path
    pc,             \* "ready", then how the call ended
    fault,          \* the exception the run time raised during the call, if any
    colors,         \* the list extract_colors_by_pixel_count returned
    image_info,     \* the ImageInfo analyze_image returned
    analysis_thread,    \* MainWindow.analysis_thread: an index of threads, 0 for None
    threads,            \* the AnalysisThread objects created, in the order of creation
    last_request,       \* the file_path of the latest call of MainWindow.analyze_image
    upload,             \* the latest call of load_image_file: its path, the signal emitted
    signals,            \* the signals the thread emitted, not yet delivered
    heap,               \* the list objects: heap[r] is the content of list r
    infos,              \* the ImageInfo objects; the field colors is a list of heap
    current_image_info, \* MainWindow.current_image_info: an index of infos, 0 for None
    widget_colors,      \* ColorListWidget.colors: a list of heap
    clear_enabled,      \* ColorListWidget.clear_button.isEnabled()
    records,            \* HistoryManager._records, newest first: indices of infos
    history_manager,    \* a HistoryManager with its directory: the records, the
                        \* thumbnail files, the saved index, the uuids drawn
    now,                \* the clock, in ticks
    history_call,       \* the latest call of the HistoryManager and what it returned
    progress_bar,       \* MainWindow.progress_bar.isVisible()
    temp_dir,           \* the files of tempfile.gettempdir(): name and time of modification
    window,             \* "open" until MainWindow.closeEvent, then "closed"
    clipboard,          \* QApplication.clipboard().text()
    selected_color,     \* ImageCanvas._selectedColor: the colour highlighted, or None
    last_click          \* the latest click on a colour: where, and on which colour

\* the state of the application around the analyzer
appVars ==
    <<analysis_thread, threads, last_request, upload, signals, heap, infos,
      current_image_info, widget_colors, clear_enabled, records,
      history_manager, now, history_call, progress_bar, temp_dir, window,
      clipboard, selected_color, last_click>>

\* the history on disk and the clock
historyVars == <<history_manager, now, history_call>>

\* the temporary directory, the clipboard and the highlight of the canvas
deskVars == <<temp_dir, window, clipboard, selected_color, last_click>>

vars ==
    <<max_colors, min_pixels, image, pc, fault, colors, image_info, analysis_thread,
      threads, last_request, upload, signals, heap, infos, current_image_info,
      widget_colors, clear_enabled, records, history_manager, now, history_call,
      progress_bar, temp_dir, window, clipboard, selected_color, last_click>>

NoInfo == [width |-> 0, height |-> 0, colors |-> <<>>]

\* whether the body of the try block raises by itself: Image.open or resize
BodyRaises(img) == ~img.ok \/ ResizeRaises(img.w, img.h)

\* sorted_colors[:self.max_colors]
RankedColors(img, maxColors, minPixels) ==
    Truncated(SortedColors(FilteredColors(CountColors(img), minPixels)), maxColors)

\* the ColorInfo of one retained colour
ColorEntry(img, item, position) ==
    [rgb |-> item.rgb,
     hex_code |-> RgbToHex(item.rgb),
     percentage |-> Percentage(item.count, SampledPixels(img.w, img.h)),
     position |-> position]

\* the list returned when the body runs to its end
RECURSIVE EntriesFrom(_, _, _)
EntriesFrom(img, ranked, k) ==
    IF k > Len(ranked) THEN <<>>
    ELSE <<ColorEntry(img, ranked[k], FindColorPosition(img, ranked[k].rgb))>>
         \o EntriesFrom(img, ranked, k + 1)

ExtractedColors(img, maxColors, minPixels) ==
    EntriesFrom(img, RankedColors(img, maxColors, minPixels), 1)

\* the same list when _find_color_position raised for entry k and returned the
\* position its except block drew
WithFallbackPosition(list, k, position) == [list EXCEPT ![k].position = position]

\* a failure of _find_color_position that ends the extraction in its except
\* block
ListsAborted(list, w, h) == {<<CreateDefaultColor>>}

\* the lists a call can return when _find_color_position raises for one entry
\* of list, the image being w x h
ListsWithFallback(list, w, h) ==
    {WithFallbackPosition(list, k, fp) :
        k \in 1..Len(list), fp \in FallbackPositions(w, h)}

\* the except block of extract_colors_by_pixel_count
FallbackColors == <<CreateDefaultColor>>

\* extract_colors_by_pixel_count(image_path), nothing else failing
ExtractColorsByPixelCount(img, maxColors, minPixels) ==
    IF BodyRaises(img) THEN FallbackColors
    ELSE ExtractedColors(img, maxColors, minPixels)

(***************************************************************************)
(* core/models.py and core/history_manager.py: the records of the history  *)
(* and their form in the index file.  None is the empty tuple, and an      *)
(* optional argument that is given is a tuple of one element.              *)
(***************************************************************************)
None == <<>>

Some(x) == <<x>>

\* datetime.now() at the tick clock
DatetimeNow(clock) ==
    [s |-> clock \div Ticks, us |-> (clock % Ticks) * (1000000 \div Ticks)]

\* datetime.isoformat(): the seconds, and the microseconds when they are not 0
IsoFormat(dt) == IF dt.us = 0 THEN <<dt.s>> ELSE <<dt.s, dt.us>>

\* datetime.fromisoformat(str)
FromIsoFormat(str) == [s |-> str[1], us |-> IF Len(str) = 1 THEN 0 ELSE str[2]]

\* ImageInfo(...) at the tick clock: __post_init__ stamps the construction time
\* when no timestamp is given
ImageInfo(file_path, width, height, size_bytes, cols, analysis_time, format, timestamp, clock) ==
    [file_path |-> file_path, width |-> width, height |-> height,
     size_bytes |-> size_bytes, colors |-> cols, analysis_time |-> analysis_time,
     format |-> format,
     timestamp |-> IF timestamp = None THEN clock ELSE timestamp[1]]

\* HistoryRecord(...) at the tick clock
HistoryRecord(id, info, thumbnail_path, created_at, clock) ==
    [id |-> id, image_info |-> info, thumbnail_path |-> thumbnail_path,
     created_at |-> IF created_at = None THEN DatetimeNow(clock) ELSE created_at[1]]

\* dict.get(key)
Get(d, key) == IF key \in DOMAIN d THEN d[key] ELSE None

\* HistoryManager._record_to_dict
RecordToDict(record) ==
    [id |-> record.id,
     thumbnail_path |-> record.thumbnail_path,
     created_at |-> IsoFormat(record.created_at),
     image_info |->
        [file_path |-> record.image_info.file_path,
         width |-> record.image_info.width,
         height |-> record.image_info.height,
         size_bytes |-> record.image_info.size_bytes,
         analysis_time |-> record.image_info.analysis_time,
         timestamp |-> record.image_info.timestamp,
         format |-> record.image_info.format,
         colors |-> [i \in 1..Len(record.image_info.colors) |->
                       [rgb |-> record.image_info.colors[i].rgb,
                        hex_code |-> record.image_info.colors[i].hex_code,
                        percentage |-> record.image_info.colors[i].percentage,
                        position |-> record.image_info.colors[i].position]]]]

\* the ColorInfo objects _dict_to_record rebuilds
ColorsOfDict(list) ==
    [i \in 1..Len(list) |->
        [rgb |-> list[i].rgb, hex_code |-> list[i].hex_code,
         percentage |-> list[i].percentage, position |-> Get(list[i], "position")]]

\* _dict_to_record with an ImageInfo that is built without the saved timestamp
DictToRecordRestamped(data, clock) ==
    HistoryRecord(data.id,
                  ImageInfo(data.image_info.file_path, data.image_info.width,
                            data.image_info.height, data.image_info.size_bytes,
                            ColorsOfDict(data.image_info.colors),
                            data.image_info.analysis_time,
                            data.image_info.format, None, clock),
                  Get(data, "thumbnail_path"),
                  Some(FromIsoFormat(data.created_at)), clock)

\* HistoryManager._dict_to_record at the tick clock
DictToRecord(data, clock) ==
    HistoryRecord(data.id,
                  ImageInfo(data.image_info.file_path, data.image_info.width,
                            data.image_info.height, data.image_info.size_bytes,
                            ColorsOfDict(data.image_info.colors),
                            data.image_info.analysis_time,
                            IF "format" \in DOMAIN data.image_info
                            THEN data.image_info.format ELSE "Unknown",
                            Some(data.image_info.timestamp), clock),
                  Get(data, "thumbnail_path"),
                  Some(FromIsoFormat(data.created_at)), clock)

MaxRecords == 100

\* the tick at which the application starts
StartTime == MaxRecords + 1

RedSquare == [ok |-> TRUE, w |-> 100, h |-> 100, cuts |-> {}, col |-> <<Red>>]

\* extract_colors_by_pixel_count on a file of one colour
RedSquareColors == ExtractColorsByPixelCount(RedSquare, DefaultMaxColors, DefaultMinPixels)

\* the images analysed for the history: a file of one colour, and a file from
\* the clipboard that makes the extraction fall back to gray
Analysed ==
    {[file_path |-> "red.png", width |-> RedSquare.w, height |-> RedSquare.h,
      size_bytes |-> 412, format |-> "PNG", colors |-> RedSquareColors],
     [file_path |-> "tmp.png", width |-> RedSquare.w, height |-> RedSquare.h,
      size_bytes |-> 412, format |-> "Unknown", colors |-> FallbackColors]}

\* ColorAnalyzer.analyze_image on the image a, returning at the tick clock
AnalyzedInfo(a, clock) ==
    ImageInfo(a.file_path, a.width, a.height, a.size_bytes, a.colors, 1, a.format,
              None, clock)

\* str(self.thumbnails_dir / f"{record_id}.jpg")
ThumbnailPath(record_id) == <<"thumbnails", record_id>>

\* json.dump of the records into the index file
SaveIndex(recs) == [i \in 1..Len(recs) |-> RecordToDict(recs[i])]

\* the record an earlier run of the application made at the tick k: every tenth
\* without a thumbnail, every third with a colour that has no position
StoredRecord(k) ==
    LET a    == CHOOSE x \in Analysed : (x.format = "PNG") = (k % 2 = 1)
        info == AnalyzedInfo(a, k - 1)
    IN  HistoryRecord(k,
                      IF k % 3 = 0
                      THEN [info EXCEPT !.colors = [i \in 1..Len(@) |->
                                                      [@[i] EXCEPT !.position = None]]]
                      ELSE info,
                      IF k % 10 = 0 THEN None ELSE ThumbnailPath(k),
                      None, k)

\* HistoryManager.__init__ at StartTime on the directory an earlier run left
\* with n records: _load_index rebuilds the records from the index file
HistoryLoaded(n) ==
    LET saved == SaveIndex([i \in 1..n |-> StoredRecord(n + 1 - i)])
    IN  [records |-> [i \in 1..n |-> DictToRecord(saved[i], StartTime)],
         thumbnails |-> {k \in 1..n : k % 10 # 0},
         index_file |-> saved,
         issued |-> n]

\* HistoryManager._remove_thumbnail(record_id) on the files
RemoveThumbnail(files, record_id) == files \ {record_id}

\* add_record that keeps the record that should leave
AddRecordUncapped(manager, info, readable, clock) ==
    LET record_id == manager.issued + 1
        record    == HistoryRecord(record_id, info,
                                   IF readable THEN ThumbnailPath(record_id) ELSE None,
                                   None, clock)
    IN  [records |-> <<record>> \o manager.records,
         thumbnails |-> manager.thumbnails \cup (IF readable THEN {record_id} ELSE {}),
         index_file |-> SaveIndex(<<record>> \o manager.records),
         issued |-> record_id]

\* HistoryManager.add_record(image_info) at the tick clock: the manager after
\* the call.  The uuid is new; _create_thumbnail returns None when the image
\* at file_path is not readable any more
AddRecordTo(manager, info, readable, clock) ==
    LET record_id == manager.issued + 1
        record    == HistoryRecord(record_id, info,
                                   IF readable THEN ThumbnailPath(record_id) ELSE None,
                                   None, clock)
        created   == manager.thumbnails \cup (IF readable THEN {record_id} ELSE {})
        inserted  == <<record>> \o manager.records
        full      == Len(inserted) > MaxRecords
        kept      == IF full THEN SubSeq(inserted, 1, Len(inserted) - 1) ELSE inserted
    IN  [records |-> kept,
         thumbnails |-> IF full
                        THEN RemoveThumbnail(created, inserted[Len(inserted)].id)
                        ELSE created,
         index_file |-> SaveIndex(kept),
         issued |-> record_id]

\* the index of the first record with the id, 0 when there is none
RECURSIVE IndexOfId(_, _, _)
IndexOfId(recs, record_id, i) ==
    IF i > Len(recs) THEN 0
    ELSE IF recs[i].id = record_id THEN i
    ELSE IndexOfId(recs, record_id, i + 1)

\* recs without its element i
WithoutIndex(recs, i) == SubSeq(recs, 1, i - 1) \o SubSeq(recs, i + 1, Len(recs))

\* remove_record that removes the thumbnail of an id that has no record
RemoveRecordEager(manager, record_id) ==
    LET i == IndexOfId(manager.records, record_id, 1)
    IN  IF i = 0
        THEN [manager EXCEPT !.thumbnails = RemoveThumbnail(@, record_id - 1)]
        ELSE [manager EXCEPT
                !.thumbnails = RemoveThumbnail(@, record_id),
                !.records = WithoutIndex(@, i),
                !.index_file = SaveIndex(WithoutIndex(manager.records, i))]

\* HistoryManager.remove_record(record_id): the manager after the call
RemoveRecordFrom(manager, record_id) ==
    LET i == IndexOfId(manager.records, record_id, 1)
    IN  IF i = 0 THEN manager
        ELSE [manager EXCEPT
                !.thumbnails = RemoveThumbnail(@, record_id),
                !.records = WithoutIndex(@, i),
                !.index_file = SaveIndex(WithoutIndex(manager.records, i))]

\* what remove_record(record_id) returns
RemoveRecordReturns(manager, record_id) == IndexOfId(manager.records, record_id, 1) # 0

\* clear_all that leaves the files
ClearAllRecords(manager) ==
    [manager EXCEPT !.records = <<>>, !.index_file = SaveIndex(<<>>)]

\* HistoryManager.clear_all(): the manager after the call
ClearAllOf(manager) ==
    [manager EXCEPT
        !.thumbnails = @ \ {manager.records[i].id : i \in 1..Len(manager.records)},
        !.records = <<>>,
        !.index_file = SaveIndex(<<>>)]

\* no path: nothing was uploaded yet
NoPath == [suffix |-> "", exists |-> FALSE, size_bytes |-> 0, file |-> UnreadableFile]

\* the application as MainWindow.__init__ leaves it, the history being empty:
\* the one list object is the list ColorListWidget.__init__ created
WidgetsConstructed ==
    /\ analysis_thread = 0
    /\ threads = <<>>
    /\ last_request = NoPath
    /\ upload = [path |-> NoPath, signal |-> "none"]
    /\ signals = <<>>
    /\ heap = << <<>> >>
    /\ infos = <<>>
    /\ current_image_info = 0
    /\ widget_colors = 1
    /\ clear_enabled = FALSE
    /\ records = <<>>

\* the window is open, nothing is highlighted, nothing was clicked, and the
\* temporary directory and the clipboard are empty
DeskConstructed ==
    /\ progress_bar = FALSE
    /\ temp_dir = {}
    /\ window = "open"
    /\ clipboard = None
    /\ selected_color = None
    /\ last_click = [on |-> "none", color |-> None]

\* the application at its first start: no index file, no thumbnail
WindowConstructed ==
    /\ WidgetsConstructed
    /\ history_manager = HistoryLoaded(0)
    /\ now = StartTime
    /\ history_call = [op |-> "none", arg |-> 0, ret |-> FALSE]
    /\ DeskConstructed

Init ==
    /\ max_colors \in MaxColorsChoices
    /\ min_pixels \in MinPixelsChoices
    /\ image \in Files
    /\ pc = "ready"
    /\ fault = "none"
    /\ colors = <<>>
    /\ image_info = NoInfo
    /\ WindowConstructed

\* a lowered threshold that is kept in the analyzer
MinPixelsLowered(img, minPixels) ==
    IF ~BodyRaises(img) /\ Len(FilterColors(CountColors(img), minPixels)) < MinKept
    THEN Max(1, minPixels \div 10)
    ELSE minPixels

\* self.min_pixels after a call on img: the lowered threshold is the local
\* min_threshold, the attribute is not assigned
MinPixelsAfter(img, minPixels) == minPixels

\* a call of extract_colors_by_pixel_count
ExtractCall ==
    /\ pc = "ready"
    /\ pc' = "extracted"
    /\ fault' = "none"
    /\ colors' = ExtractColorsByPixelCount(image, max_colors, min_pixels)
    /\ min_pixels' = MinPixelsAfter(image, min_pixels)
    /\ UNCHANGED <<max_colors, image, image_info>>
    /\ UNCHANGED appVars

\* the same call, an exception (a MemoryError, say) being raised in the body
ExtractCallFailing ==
    /\ pc = "ready"
    /\ pc' = "extracted"
    /\ fault' = "extract"
    /\ colors' = FallbackColors
    /\ UNCHANGED <<max_colors, min_pixels, image, image_info>>
    /\ UNCHANGED appVars

\* the same call, an exception being raised in _find_color_position for one
\* of the retained colours
ExtractCallPositionFailing ==
    /\ pc = "ready"
    /\ ~BodyRaises(image)
    /\ colors' \in ListsWithFallback(ExtractedColors(image, max_colors, min_pixels),
                                     image.w, image.h)
    /\ pc' = "extracted"
    /\ fault' = "position"
    /\ UNCHANGED <<max_colors, min_pixels, image, image_info>>
    /\ UNCHANGED appVars

\* a call of analyze_image: Image.open raises for an unreadable file; otherwise
\* the ImageInfo holds the size of the file's image and the extracted list
AnalyzeImageOf(img) ==
    IF ~img.ok
    THEN /\ pc' = "raised"
         /\ UNCHANGED <<fault, colors, image_info>>
    ELSE \E f \in {"none", "extract"} :
         /\ pc' = "analyzed"
         /\ fault' = f
         /\ colors' = IF f = "extract" THEN FallbackColors
                      ELSE ExtractColorsByPixelCount(img, max_colors, min_pixels)
         /\ image_info' = [width |-> img.w, height |-> img.h, colors |-> colors']

AnalyzeImage ==
    /\ pc = "ready"
    /\ AnalyzeImageOf(image)

AnalyzeCall ==
    /\ AnalyzeImage
    /\ UNCHANGED <<max_colors, min_pixels, image>>
    /\ UNCHANGED appVars

\* the same, an exception being raised in _find_color_position
AnalyzeCallPositionFailing ==
    /\ pc = "ready"
    /\ ~BodyRaises(image)
    /\ colors' \in ListsWithFallback(ExtractedColors(image, max_colors, min_pixels),
                                     image.w, image.h)
    /\ image_info' = [width |-> image.w, height |-> image.h, colors |-> colors']
    /\ pc' = "analyzed"
    /\ fault' = "position"
    /\ UNCHANGED <<max_colors, min_pixels, image>>
    /\ UNCHANGED appVars

Next ==
    \/ ExtractCall
    \/ ExtractCallFailing
    \/ ExtractCallPositionFailing
    \/ AnalyzeCall
    \/ AnalyzeCallPositionFailing

Spec == Init /\ [][Next]_vars

(***************************************************************************)
(* Two calls of extract_colors_by_pixel_count on one ColorAnalyzer and one *)
(* image, the second meeting the failure the first met.                    *)
(***************************************************************************)
\* the lists differ at one entry at most: the entry whose position failed
SameFailure(l, c) ==
    /\ Len(l) = Len(c)
    /\ \E k \in 1..Len(c) : \A j \in (1..Len(c)) \ {k} : l[j] = c[j]

\* the lists a call of extract_colors_by_pixel_count can return on the path
\* path, after a call on that path returned the list first
RepeatedLists(img, maxColors, minPixels, path, first) ==
    IF path = "extract" THEN {FallbackColors}
    ELSE IF path = "position"
    THEN {l \in ListsWithFallback(ExtractedColors(img, maxColors, minPixels), img.w, img.h) :
             SameFailure(l, first)}
    ELSE {ExtractColorsByPixelCount(img, maxColors, minPixels)}

\* the second call on the same image
RepeatCall ==
    /\ pc = "extracted"
    /\ pc' = "repeated"
    /\ colors' \in RepeatedLists(image, max_colors, min_pixels, fault, colors)
    /\ min_pixels' = MinPixelsAfter(image, min_pixels)
    /\ UNCHANGED <<max_colors, image, fault, image_info>>
    /\ UNCHANGED appVars

NextRepeat ==
    \/ ExtractCall
    \/ ExtractCallFailing
    \/ ExtractCallPositionFailing
    \/ RepeatCall

\* an analyzer with the default cap, and thresholds that are lowered for the
\* small images
InitRepeat ==
    /\ max_colors = DefaultMaxColors
    /\ min_pixels \in {20, DefaultMinPixels}
    /\ image \in Files
    /\ pc = "ready"
    /\ fault = "none"
    /\ colors = <<>>
    /\ image_info = NoInfo
    /\ WindowConstructed

SpecRepeat == InitRepeat /\ [][NextRepeat]_vars

(***************************************************************************)
(* The calls in which _find_color_position fails, with a threshold that    *)
(* lets every colour of the small images pass.                             *)
(***************************************************************************)
InitPosition ==
    /\ max_colors \in {2, DefaultMaxColors}
    /\ min_pixels = 2
    /\ image \in Files
    /\ pc = "ready"
    /\ fault = "none"
    /\ colors = <<>>
    /\ image_info = NoInfo
    /\ WindowConstructed

NextPosition ==
    \/ ExtractCallPositionFailing
    \/ AnalyzeCallPositionFailing

SpecPosition == InitPosition /\ [][NextPosition]_vars

(***************************************************************************)
(* The calls that run to their end, on the images of three sizes: one that *)
(* is sampled as it is, one of 10000 pixels and one that is scaled down.   *)
(***************************************************************************)
InitRanking ==
    /\ max_colors \in MaxColorsChoices
    /\ min_pixels \in MinPixelsChoices
    /\ image \in {f \in ReadableFiles : <<f.w, f.h>> \in {<<3, 3>>, <<100, 100>>, <<1600, 800>>}}
    /\ pc = "ready"
    /\ fault = "none"
    /\ colors = <<>>
    /\ image_info = NoInfo
    /\ WindowConstructed

NextRanking ==
    \/ ExtractCall
    \/ AnalyzeCall

SpecRanking == InitRanking /\ [][NextRanking]_vars

(***************************************************************************)
(* The same calls on 1 x 1 images whose channels take every value of       *)
(* 0..255.                                                                 *)
(***************************************************************************)
HexColours == {<<c, (c + 85) % 256, (c + 171) % 256>> : c \in 0..255}

HexFiles ==
    {[ok |-> TRUE, w |-> 1, h |-> 1, cuts |-> {}, col |-> <<c>>] : c \in HexColours}
      \cup {UnreadableFile}

InitHex ==
    /\ max_colors = DefaultMaxColors
    /\ min_pixels \in MinPixelsChoices
    /\ image \in HexFiles
    /\ pc = "ready"
    /\ fault = "none"
    /\ colors = <<>>
    /\ image_info = NoInfo
    /\ WindowConstructed

SpecHex == InitHex /\ [][Next]_vars

(***************************************************************************)
(* The same calls on 1 x 1 images whose channels are at the ends and in    *)
(* the middle of 0..255: the grays among them, and the colours whose hue,  *)
(* saturation, lightness and value are at the ends of their ranges.        *)
(***************************************************************************)
ChannelEnds == {0, 1, 127, 128, 254, 255}

SpaceColours == {<<r, g, b>> : r \in ChannelEnds, g \in ChannelEnds, b \in ChannelEnds}

SpaceFiles ==
    {[ok |-> TRUE, w |-> 1, h |-> 1, cuts |-> {}, col |-> <<c>>] : c \in SpaceColours}
      \cup {UnreadableFile}

InitSpace ==
    /\ max_colors = DefaultMaxColors
    /\ min_pixels \in {2, DefaultMinPixels}
    /\ image \in SpaceFiles
    /\ pc = "ready"
    /\ fault = "none"
    /\ colors = <<>>
    /\ image_info = NoInfo
    /\ WindowConstructed

SpecSpace == InitSpace /\ [][Next]_vars

(***************************************************************************)
(* The application: MainWindow runs analyze_image in an AnalysisThread,    *)
(* whose signals the window's slots receive; the slots hand the ImageInfo  *)
(* to the colour list and to the history.  Python lists are objects: the   *)
(* model keeps their contents in heap and refers to them by index.         *)
(***************************************************************************)
\* the images uploaded in the application runs: the unreadable file, one red
\* pixel, 100 x 100 pixels of red, and of one half red and one half blue
AppFiles ==
    {f \in Files :
        \/ ~f.ok
        \/ /\ f.w \in {1, 100} /\ f.h = f.w
           /\ \A c \in f.cuts : 2 * c = f.w * f.h
           /\ f.col \in {<<Red>>, <<Red, <<0, 10, 171>>>>}}

HistoryShown == 50

\* HistoryManager.add_record: the record goes to the front, the oldest leaves
\* beyond MaxRecords
AddRecord(recs, info) ==
    LET added == <<info>> \o recs
    IN  IF Len(added) > MaxRecords THEN SubSeq(added, 1, Len(added) - 1) ELSE added

(***************************************************************************)
(* Uploads.  A path handed to UploadWidget.load_image_file has a suffix,   *)
(* may exist, has a size, and holds a file that PIL can or cannot read.    *)
(***************************************************************************)
SUPPORTED_FORMATS == {".png", ".jpg", ".jpeg", ".bmp", ".gif", ".tiff", ".webp"}

\* str.lower on the suffixes of the uploaded paths
Lower(suffix) == IF suffix = ".JPG" THEN ".jpg" ELSE suffix

\* FileHandler.is_image_file
IsImageFile(path) == Lower(path.suffix) \in SUPPORTED_FORMATS

MaxSizeMb == 50

\* a file size check that accepts every size
ValidateImageSizeAlways(path) == TRUE

\* FileHandler.validate_image_size: size_bytes / (1024 * 1024) <= 50.0; the
\* division by 2^20 is exact in doubles, so this is the comparison of the bytes
ValidateImageSize(path) == path.size_bytes <= MaxSizeMb * 1024 * 1024

\* FileHandler.load_image raises ValueError
LoadImageRaises(path) == ~path.exists \/ ~IsImageFile(path) \/ ~path.file.ok

\* the signal load_image_file emits for the path: Path.stat raises for a
\* missing file, and every exception ends in upload_error
LoadImageFileEmits(path) ==
    IF ~IsImageFile(path) THEN "upload_error"
    ELSE IF ~path.exists THEN "upload_error"
    ELSE IF ~ValidateImageSize(path) THEN "upload_error"
    ELSE IF LoadImageRaises(path) THEN "upload_error"
    ELSE "image_uploaded"

\* the paths uploaded in the application runs: the readable images under
\* supported suffixes, one of them of exactly 50 MB, and a path of each kind
\* that load_image_file has to turn down
AcceptablePaths ==
    {[suffix |-> IF f.w = 1 THEN ".JPG" ELSE ".png", exists |-> TRUE,
      size_bytes |-> MaxSizeMb * 1024 * 1024, file |-> f] :
        f \in {g \in AppFiles : g.ok}}

UnacceptablePaths ==
    {[suffix |-> ".txt", exists |-> TRUE, size_bytes |-> 1000, file |-> RedSquare],
     [suffix |-> ".png", exists |-> TRUE, size_bytes |-> MaxSizeMb * 1024 * 1024 + 1,
      file |-> RedSquare],
     [suffix |-> ".png", exists |-> FALSE, size_bytes |-> 0, file |-> UnreadableFile],
     [suffix |-> ".png", exists |-> TRUE, size_bytes |-> 1000, file |-> UnreadableFile]}

AppPaths == AcceptablePaths \cup UnacceptablePaths

\* QThread.isRunning(): from start() until run() has returned
IsRunning(thread) == thread.state \in {"running", "emitted"}

\* a guard that never finds a thread running
ThreadBusyNever == FALSE

\* self.analysis_thread and self.analysis_thread.isRunning()
ThreadBusy == analysis_thread # 0 /\ IsRunning(threads[analysis_thread])

\* MainWindow.analyze_image(file_path): nothing while the thread is running;
\* otherwise the progress bar is shown and a new AnalysisThread, with its own
\* ColorAnalyzer, is started
MainWindowAnalyzeImage(path) ==
    /\ last_request' = path
    /\ IF ThreadBusy
       THEN UNCHANGED <<analysis_thread, threads, progress_bar>>
       ELSE /\ Len(threads) < MaxAnalyses
            /\ progress_bar' = TRUE
            /\ threads' = Append(threads, [image_path |-> path, state |-> "running"])
            /\ analysis_thread' = Len(threads) + 1

\* UploadWidget.load_image_file(file_path): image_uploaded calls its slot
\* MainWindow.analyze_image; upload_error calls on_upload_error, which sets
\* the status message
LoadImageFile ==
    /\ \E path \in AppPaths :
          /\ upload' = [path |-> path, signal |-> LoadImageFileEmits(path)]
          /\ IF LoadImageFileEmits(path) = "image_uploaded"
             THEN MainWindowAnalyzeImage(path)
             ELSE UNCHANGED <<analysis_thread, threads, last_request, progress_bar>>
    /\ UNCHANGED <<max_colors, min_pixels, image, pc, fault, colors, image_info,
                   signals, heap, infos, current_image_info, widget_colors,
                   clear_enabled, records>>
    /\ UNCHANGED <<historyVars, deskVars>>

\* AnalysisThread.run of thread t: analyze_image on the file the path holds by
\* then (it may have been removed since the upload), then analysis_finished
\* with the new ImageInfo, or analysis_error when the call raised
AnalysisThreadRun ==
    /\ \E t \in 1..Len(threads) :
          /\ threads[t].state = "running"
          /\ threads' = [threads EXCEPT ![t].state = "emitted"]
          /\ image' \in {threads[t].image_path.file, UnreadableFile}
          /\ AnalyzeImageOf(image')
          /\ IF ~image'.ok
             THEN /\ signals' = Append(signals, [kind |-> "analysis_error", info |-> 0])
                  /\ UNCHANGED <<heap, infos>>
             ELSE /\ heap' = Append(heap, colors')
                  /\ infos' = Append(infos, [width |-> image'.w, height |-> image'.h,
                                             colors |-> Len(heap) + 1,
                                             file_path |-> threads[t].image_path])
                  /\ signals' = Append(signals, [kind |-> "analysis_finished",
                                                 info |-> Len(infos) + 1])
    /\ UNCHANGED <<max_colors, min_pixels, analysis_thread, last_request, upload,
                   current_image_info, widget_colors, clear_enabled, records>>
    /\ UNCHANGED <<historyVars, deskVars, progress_bar>>

\* run() of thread t returns: the thread is no longer running
AnalysisThreadExit ==
    /\ \E t \in 1..Len(threads) :
          /\ threads[t].state = "emitted"
          /\ threads' = [threads EXCEPT ![t].state = "finished"]
    /\ UNCHANGED <<max_colors, min_pixels, image, pc, fault, colors, image_info,
                   analysis_thread, last_request, upload, signals, heap, infos,
                   current_image_info, widget_colors, clear_enabled, records>>
    /\ UNCHANGED <<historyVars, deskVars, progress_bar>>

\* MainWindow.on_analysis_completed(image_info): the window, the canvas (which
\* drops its highlight), the colour list (set_colors keeps the list it is
\* given) and the history take the ImageInfo, and the progress bar is hidden
OnAnalysisCompleted ==
    /\ signals # <<>>
    /\ Head(signals).kind = "analysis_finished"
    /\ current_image_info' = Head(signals).info
    /\ widget_colors' = infos[Head(signals).info].colors
    /\ clear_enabled' = (heap[infos[Head(signals).info].colors] # <<>>)
    /\ records' = AddRecord(records, Head(signals).info)
    /\ signals' = Tail(signals)
    /\ UNCHANGED <<max_colors, min_pixels, image, pc, fault, colors, image_info,
                   analysis_thread, threads, last_request, upload, heap, infos>>
    /\ progress_bar' = FALSE
    /\ selected_color' = None
    /\ UNCHANGED <<historyVars, temp_dir, window, clipboard, last_click>>

\* MainWindow.on_analysis_failed(error_message): the progress bar is hidden,
\* a message is shown, no change of data
OnAnalysisFailed ==
    /\ signals # <<>>
    /\ Head(signals).kind = "analysis_error"
    /\ signals' = Tail(signals)
    /\ UNCHANGED <<max_colors, min_pixels, image, pc, fault, colors, image_info,
                   analysis_thread, threads, last_request, upload, heap, infos,
                   current_image_info, widget_colors, clear_enabled, records>>
    /\ progress_bar' = FALSE
    /\ UNCHANGED <<historyVars, deskVars>>

\* MainWindow.onHistoryRecordSelected(record), for a record the history shows
OnHistoryRecordSelected ==
    /\ \E r \in 1..Min(Len(records), HistoryShown) :
          /\ current_image_info' = records[r]
          /\ widget_colors' = infos[records[r]].colors
          /\ clear_enabled' = (heap[infos[records[r]].colors] # <<>>)
    /\ UNCHANGED <<max_colors, min_pixels, image, pc, fault, colors, image_info,
                   analysis_thread, threads, last_request, upload, signals, heap,
                   infos, records>>
    /\ selected_color' = None
    /\ UNCHANGED <<historyVars, temp_dir, window, clipboard, last_click, progress_bar>>

\* ColorListWidget.clear_colors, the slot of the clear button:
\* self.colors.clear() empties the list object the widget holds
ClearColors ==
    /\ clear_enabled
    /\ heap' = [heap EXCEPT ![widget_colors] = <<>>]
    /\ clear_enabled' = FALSE
    /\ UNCHANGED <<max_colors, min_pixels, image, pc, fault, colors, image_info,
                   analysis_thread, threads, last_request, upload, signals, infos,
                   current_image_info, widget_colors, records>>
    /\ UNCHANGED <<historyVars, deskVars, progress_bar>>

InitApp ==
    /\ max_colors = DefaultMaxColors
    /\ min_pixels = DefaultMinPixels
    /\ image = UnreadableFile
    /\ pc = "idle"
    /\ fault = "none"
    /\ colors = <<>>
    /\ image_info = NoInfo
    /\ WindowConstructed

NextApp ==
    \/ LoadImageFile
    \/ AnalysisThreadRun
    \/ AnalysisThreadExit
    \/ OnAnalysisCompleted
    \/ OnAnalysisFailed
    \/ OnHistoryRecordSelected
    \/ ClearColors

SpecApp == InitApp /\ [][NextApp]_vars

(***************************************************************************)
(* The calls of a HistoryManager that starts on the directory an earlier   *)
(* run left: empty, one record below the cap, or at the cap.               *)
(***************************************************************************)
analyzerVars == <<max_colors, min_pixels, image, pc, fault, colors, image_info>>

widgetVars ==
    <<analysis_thread, threads, last_request, upload, signals, heap, infos,
      current_image_info, widget_colors, clear_enabled, records>>

\* the ids of the records, in the order of the list
RecordIds(manager) == [i \in 1..Len(manager.records) |-> manager.records[i].id]

\* the ids asked to be removed: of the newest and of the oldest record, of one
\* in between, and one that no record has
RemovedIds(manager) ==
    {manager.issued + 1}
      \cup {RecordIds(manager)[i] :
               i \in {1, (Len(manager.records) + 1) \div 2, Len(manager.records)}
                       \cap (1..Len(manager.records))}

\* add_record(image_info) for an ImageInfo built at this tick or the tick before
HistoryAddRecord ==
    /\ now < StartTime + MaxCalls
    /\ \E a \in Analysed, built \in {now - 1, now}, readable \in BOOLEAN :
          history_manager' = AddRecordTo(history_manager, AnalyzedInfo(a, built),
                                         readable, now)
    /\ history_call' = [op |-> "add_record", arg |-> history_manager'.issued,
                        ret |-> TRUE]
    /\ now' = now + 1
    /\ UNCHANGED <<analyzerVars, widgetVars, progress_bar, deskVars>>

HistoryRemoveRecord ==
    /\ now < StartTime + MaxCalls
    /\ \E record_id \in RemovedIds(history_manager) :
          /\ history_manager' = RemoveRecordFrom(history_manager, record_id)
          /\ history_call' = [op |-> "remove_record", arg |-> record_id,
                              ret |-> RemoveRecordReturns(history_manager, record_id)]
    /\ now' = now + 1
    /\ UNCHANGED <<analyzerVars, widgetVars, progress_bar, deskVars>>

HistoryClearAll ==
    /\ now < StartTime + MaxCalls
    /\ history_manager' = ClearAllOf(history_manager)
    /\ history_call' = [op |-> "clear_all", arg |-> 0, ret |-> TRUE]
    /\ now' = now + 1
    /\ UNCHANGED <<analyzerVars, widgetVars, progress_bar, deskVars>>

InitHistory ==
    /\ max_colors = DefaultMaxColors
    /\ min_pixels = DefaultMinPixels
    /\ image = UnreadableFile
    /\ pc = "idle"
    /\ fault = "none"
    /\ colors = <<>>
    /\ image_info = NoInfo
    /\ WidgetsConstructed
    /\ history_manager \in {HistoryLoaded(n) : n \in {0, MaxRecords - 1, MaxRecords}}
    /\ now = StartTime
    /\ history_call = [op |-> "none", arg |-> 0, ret |-> FALSE]
    /\ DeskConstructed

NextHistory ==
    \/ HistoryAddRecord
    \/ HistoryRemoveRecord
    \/ HistoryClearAll

SpecHistory == InitHistory /\ [][NextHistory]_vars

(***************************************************************************)
(* Pasted images and the cleaning of the temporary directory: the timer of *)
(* MainWindow fires as long as the window is open.                         *)
(***************************************************************************)
\* self.cleanup_timer.start(300000), in seconds
CleanupInterval == 300

\* time.time() - os.path.getmtime(file_path) > 3600
MaxAge == 3600

\* the name tempfile.NamedTemporaryFile(suffix='.png') gives its file: the
\* default prefix, random characters, the suffix
NamedTemporaryFile(serial) == [prefix |-> "tmp", random |-> serial, suffix |-> ".png"]

\* a file some other run left in the temporary directory
LeftFile ==
    [name |-> [prefix |-> "qtpiccolor_", random |-> 0, suffix |-> ".tmp"],
     mtime |-> StartTime]

\* glob.glob(os.path.join(temp_dir, "qtpiccolor_*")) matches the file name
MatchesPattern(name) == name.prefix = "qtpiccolor_"

\* MainWindow.cleanup_temp_files() at the tick clock: the files that stay
CleanupTempFiles(files, clock) ==
    {f \in files : ~(MatchesPattern(f.name) /\ clock - f.mtime > MaxAge * Ticks)}

\* the files of the pasted images in the directory
PastedFiles(files) == {f \in files : f.name.prefix = "tmp"}

\* UploadWidget.paste_from_clipboard with an image in the clipboard: the image
\* is saved under a new temporary name and handed to load_image_file, which
\* accepts it and emits image_uploaded to MainWindow.analyze_image
PasteFromClipboard ==
    /\ window = "open"
    /\ now < StartTime + MaxPastes * CleanupInterval * Ticks
    /\ \A f \in PastedFiles(temp_dir) : now - f.mtime >= CleanupInterval * Ticks
    /\ LET name == NamedTemporaryFile(Cardinality(PastedFiles(temp_dir)) + 1)
           path == [suffix |-> name.suffix, exists |-> TRUE, size_bytes |-> 412,
                    file |-> RedSquare, name |-> name]
       IN  /\ temp_dir' = temp_dir \cup {[name |-> name, mtime |-> now]}
           /\ upload' = [path |-> path, signal |-> LoadImageFileEmits(path)]
           /\ MainWindowAnalyzeImage(path)
    /\ UNCHANGED <<analyzerVars, signals, heap, infos, current_image_info,
                   widget_colors, clear_enabled, records, historyVars, window,
                   clipboard, selected_color, last_click>>

\* the timeout of cleanup_timer, one period after the one before
CleanupTimerTimeout ==
    /\ window = "open"
    /\ now + CleanupInterval * Ticks <= StartTime + MaxTimeouts * CleanupInterval * Ticks
    /\ now' = now + CleanupInterval * Ticks
    /\ temp_dir' = CleanupTempFiles(temp_dir, now')
    /\ UNCHANGED <<analyzerVars, widgetVars, history_manager, history_call,
                   progress_bar, window, clipboard, selected_color, last_click>>

\* MainWindow.closeEvent: quit() and wait() leave a thread in run() running;
\* the timer is stopped and the directory is cleaned once more
CloseEvent ==
    /\ window = "open"
    /\ window' = "closed"
    /\ temp_dir' = CleanupTempFiles(temp_dir, now)
    /\ UNCHANGED <<analyzerVars, widgetVars, historyVars, progress_bar, clipboard,
                   selected_color, last_click>>

InitTemp ==
    /\ max_colors = DefaultMaxColors
    /\ min_pixels = DefaultMinPixels
    /\ image = UnreadableFile
    /\ pc = "idle"
    /\ fault = "none"
    /\ colors = <<>>
    /\ image_info = NoInfo
    /\ WidgetsConstructed
    /\ history_manager = HistoryLoaded(0)
    /\ now = StartTime
    /\ history_call = [op |-> "none", arg |-> 0, ret |-> FALSE]
    /\ progress_bar = FALSE
    /\ temp_dir \in {{}, {LeftFile}}
    /\ window = "open"
    /\ clipboard = None
    /\ selected_color = None
    /\ last_click = [on |-> "none", color |-> None]

NextTemp ==
    \/ PasteFromClipboard
    \/ CleanupTimerTimeout
    \/ CloseEvent

\* the timer is not starved while the window is open
SpecTemp == InitTemp /\ [][NextTemp]_vars /\ WF_vars(CleanupTimerTimeout)

(***************************************************************************)
(* Clicks on the colours of an analysed image, in the colour list and on   *)
(* the canvas.  The window shows the result of one finished analysis.      *)
(***************************************************************************)
\* the images shown: 100 x 100 pixels, of up to MaxRuns runs of colour
ShownFiles == {f \in ReadableFiles : f.w = 100 /\ f.h = 100}

\* the path of a shown image
ShownPath(f) ==
    [suffix |-> ".png", exists |-> TRUE, size_bytes |-> 412, file |-> f]

\* MainWindow.on_color_clicked(hex_color), the only slot of color_selected and
\* of colorClicked: it writes the status bar, which the model leaves out, and
\* does nothing to the canvas
OnColorClicked == UNCHANGED selected_color

\* ColorListWidget.on_color_item_clicked(item): the value of the item, in the
\* HEX format the list starts with, goes to the clipboard, and color_selected
\* is emitted
OnColorItemClicked ==
    /\ \E i \in 1..Len(heap[widget_colors]) :
          /\ clipboard' = heap[widget_colors][i].hex_code
          /\ last_click' = [on |-> "list", color |-> heap[widget_colors][i].hex_code]
    /\ OnColorClicked
    /\ UNCHANGED <<analyzerVars, widgetVars, historyVars, progress_bar, temp_dir, window>>

\* ColorListWidget.on_color_item_double_clicked(item): highlight_cleared is
\* emitted, a signal that no slot is connected to
OnColorItemDoubleClicked ==
    /\ \E i \in 1..Len(heap[widget_colors]) :
          last_click' = [on |-> "list_double", color |-> heap[widget_colors][i].hex_code]
    /\ UNCHANGED <<analyzerVars, widgetVars, historyVars, progress_bar, temp_dir, window,
                   clipboard, selected_color>>

\* ImageCanvas.mousePressEvent on the marker of a colour: the hex code goes to
\* the clipboard and colorClicked is emitted
CanvasMousePress ==
    /\ current_image_info # 0
    /\ \E i \in 1..Len(heap[infos[current_image_info].colors]) :
          /\ clipboard' = heap[infos[current_image_info].colors][i].hex_code
          /\ last_click' = [on |-> "canvas",
                            color |-> heap[infos[current_image_info].colors][i].hex_code]
    /\ OnColorClicked
    /\ UNCHANGED <<analyzerVars, widgetVars, historyVars, progress_bar, temp_dir, window>>

\* the window after the analysis of a shown image was completed
InitClicks ==
    /\ max_colors = DefaultMaxColors
    /\ min_pixels = DefaultMinPixels
    /\ image \in ShownFiles
    /\ pc = "analyzed"
    /\ fault = "none"
    /\ colors = ExtractColorsByPixelCount(image, max_colors, min_pixels)
    /\ image_info = [width |-> image.w, height |-> image.h, colors |-> colors]
    /\ analysis_thread = 1
    /\ threads = <<[image_path |-> ShownPath(image), state |-> "finished"]>>
    /\ last_request = ShownPath(image)
    /\ upload = [path |-> ShownPath(image), signal |-> "image_uploaded"]
    /\ signals = <<>>
    /\ heap = << <<>>, colors >>
    /\ infos = <<[width |-> image.w, height |-> image.h, colors |-> 2,
                  file_path |-> ShownPath(image)]>>
    /\ current_image_info = 1
    /\ widget_colors = 2
    /\ clear_enabled = (colors # <<>>)
    /\ records = <<1>>
    /\ history_manager = HistoryLoaded(0)
    /\ now = StartTime
    /\ history_call = [op |-> "none", arg |-> 0, ret |-> FALSE]
    /\ DeskConstructed

NextClicks ==
    \/ OnColorItemClicked
    \/ OnColorItemDoubleClicked
    \/ CanvasMousePress

SpecClicks == InitClicks /\ [][NextClicks]_vars

(***************************************************************************)
(* Properties of the extractor.                                            *)
(***************************************************************************)
\* a call of extract_colors_by_pixel_count has returned its list
Returned == pc \in {"extracted", "analyzed"}

\* the body of the call ran to its end, nothing raising
RanNormally == Returned /\ fault = "none" /\ ~BodyRaises(image)

FLess(a, b) == ~FLeq(b, a)

\* C1: the returned list is ordered by non-increasing percentage: every entry's
\* percentage is at least that of the entry behind it.
C1_SortedByPercentage ==
    Returned =>
        \A i \in 1..(Len(colors) - 1) :
            FLeq(colors[i + 1].percentage, colors[i].percentage)

\* the ranking moved a colour seen later in front of the colour seen first
C1_Witness ==
    /\ pc = "extracted"
    /\ Len(colors) >= 2
    /\ colors[1].rgb # image.col[1]
    /\ FLess(colors[2].percentage, colors[1].percentage)

\* C2: the returned list is no longer than max_colors, on the normal path and
\* on the gray fallback path.
C2_CapRespected == Returned => Len(colors) <= max_colors

\* more colours passed the threshold than max_colors, and the list was cut
C2_Witness ==
    /\ RanNormally
    /\ Len(FilteredColors(CountColors(image), min_pixels)) > max_colors
    /\ Len(colors) = max_colors

\* an entry is well formed: channels in 0..255, a hex code, a position
WellFormed(entry) ==
    /\ \A k \in 1..3 : entry.rgb[k] \in 0..255
    /\ Len(entry.hex_code) = 7
    /\ Len(entry.position) = 2

\* C3: the caller always receives a non-empty list of well-formed entries, for
\* every image and every internal failure.
C3_NeverEmpty ==
    Returned => Len(colors) >= 1 /\ \A k \in 1..Len(colors) : WellFormed(colors[k])

\* C4: a 1 x 1 image analysed with the default parameters yields exactly one
\* entry, whose rgb is the pixel's colour and whose percentage is 100.0.
C4_SinglePixel ==
    (/\ RanNormally
     /\ image.w = 1 /\ image.h = 1
     /\ max_colors = DefaultMaxColors /\ min_pixels = DefaultMinPixels)
    => /\ Len(colors) = 1
       /\ colors[1].rgb = image.col[1]
       /\ colors[1].percentage = FHundred

\* C5: when fewer than 3 colours have at least min_pixels = 100 pixels, the
\* extraction returns at least min(3, number of distinct colours of the sampled
\* image) entries (max_colors >= 3).
C5_RelaxationYieldsThree ==
    (/\ RanNormally
     /\ max_colors >= 3 /\ min_pixels = DefaultMinPixels
     /\ Len(FilterColors(CountColors(image), min_pixels)) < 3)
    => Len(colors) >= Min(3, Len(CountColors(image)))

\* C6: when the extraction fails internally, the call returns the list of one
\* entry: rgb (128,128,128), hex code "#808080", percentage 100.0, position
\* (0,0); it does not raise.
C6_GrayFallback ==
    (pc = "extracted" /\ (fault = "extract" \/ BodyRaises(image)))
    => colors = <<[rgb |-> <<128, 128, 128>>,
                   hex_code |-> <<"#", "8", "0", "8", "0", "8", "0">>,
                   percentage |-> FHundred,
                   position |-> <<0, 0>>]>>

\* the call was handed an unreadable file and returned
C6_Witness == pc = "extracted" /\ ~image.ok /\ Len(colors) = 1

UpperHex ==
    <<"0", "1", "2", "3", "4", "5", "6", "7", "8", "9", "A", "B", "C", "D", "E", "F">>

IsUpperHex(ch) == \E v \in 1..16 : UpperHex[v] = ch

HexValue(ch) == (CHOOSE v \in 1..16 : UpperHex[v] = ch) - 1

\* the hex code h reads as the channels of rgb
HexMatches(h, rgb) ==
    /\ Len(h) = 7
    /\ h[1] = "#"
    /\ \A k \in 2..7 : IsUpperHex(h[k])
    /\ \A k \in 1..3 : 16 * HexValue(h[2 * k]) + HexValue(h[2 * k + 1]) = rgb[k]

\* C7: every entry's hex_code is '#' followed by the two-digit, zero-padded,
\* uppercase hexadecimal form of rgb[0], rgb[1], rgb[2], for the retained
\* colours and for the gray fallback entry.
C7_HexMatchesRgb ==
    Returned => \A k \in 1..Len(colors) : HexMatches(colors[k].hex_code, colors[k].rgb)

\* an entry of a retained colour with a channel below 16
C7_Witness ==
    /\ RanNormally
    /\ \E k \in 1..Len(colors) : \E j \in 1..3 : colors[k].rgb[j] < 16

InBounds(position, w, h) ==
    /\ 0 <= position[1] /\ position[1] < w
    /\ 0 <= position[2] /\ position[2] < h

\* C8: every entry of an ImageInfo returned by analyze_image has its position
\* inside the original image: 0 <= x < width and 0 <= y < height.
C8_PositionInBounds ==
    pc = "analyzed" =>
        \A k \in 1..Len(image_info.colors) :
            InBounds(image_info.colors[k].position, image_info.width, image_info.height)

\* a fallback position drawn at the upper end of its range, in a downscaled image
C8_Witness ==
    /\ pc = "analyzed"
    /\ fault = "position"
    /\ image.w > MaxSize
    /\ \E k \in 1..Len(image_info.colors) :
          image_info.colors[k].position = <<(image.w * 3) \div 4, (image.h * 3) \div 4>>

RECURSIVE PercentagesOf(_)
PercentagesOf(list) ==
    IF list = <<>> THEN <<>> ELSE <<Head(list).percentage>> \o PercentagesOf(Tail(list))

\* the exact sum of the percentages of the list, in units of 2^-70
ExactSum(list) == FixSum(PercentagesOf(list))

\* a sum in units of 2^-70 is at most 100
AtMost100(V) == V[1] < 100 \/ (V[1] = 100 /\ \A k \in 2..8 : V[k] = 0)

\* a sum in units of 2^-70 is below 100 + 2^-40
Below100Rounded(V) == V[1] < 100 \/ (V[1] = 100 /\ \A k \in 2..5 : V[k] = 0)

\* C9, as the specification states it: the sum of the percentages of one
\* extraction is at most 100 and each percentage lies in [0, 100].
C9_SumAtMost100 ==
    Returned =>
        /\ AtMost100(ExactSum(colors))
        /\ \A k \in 1..Len(colors) : FLeq(colors[k].percentage, FHundred)

\* C9, up to rounding: each percentage lies in [0, 100], and the sum of the
\* percentages is at most 100 up to the rounding of the doubles: it is below
\* 100 + 2^-40.
C9_SumAtMost100Rounded ==
    Returned =>
        /\ Below100Rounded(ExactSum(colors))
        /\ \A k \in 1..Len(colors) : FLeq(colors[k].percentage, FHundred)

\* every colour of the image was returned and the doubles add up to more than 100
C9_Witness ==
    /\ RanNormally
    /\ Len(colors) = Len(CountColors(image))
    /\ Len(colors) >= 2
    /\ ~AtMost100(ExactSum(colors))

(***************************************************************************)
(* Properties of the application.                                          *)
(***************************************************************************)
\* C10: an ImageInfo is immutable after construction: no step of the
\* application (displaying it, adding it to the history, set_colors,
\* clear_colors, selecting a history record) changes its fields or the content
\* of its colors list, for the current ImageInfo and for those of the history.
C10_ImageInfoImmutable ==
    [][\A i \in 1..Len(infos) :
          /\ infos'[i] = infos[i]
          /\ heap'[infos[i].colors] = heap[infos[i].colors]]_vars

\* C11: a request that arrives while an analysis is in flight supersedes it:
\* the newest AnalysisThread is always the one started for the most recent
\* request, so no request for the newest image is lost.
C11_NewestRequestServed ==
    last_request # NoPath =>
        /\ analysis_thread # 0
        /\ threads[analysis_thread].image_path = last_request

\* the AnalysisThread objects whose run() has not returned
RunningThreads == {t \in 1..Len(threads) : IsRunning(threads[t])}

\* C12: at every moment at most one AnalysisThread is executing: analyze_image
\* starts a worker only when no worker started before is still running.
C12_AtMostOneWorker == Cardinality(RunningThreads) <= 1

\* a second worker runs while the signal of the first is still to be delivered
C12_Witness ==
    /\ analysis_thread = 2
    /\ threads[2].state = "running"
    /\ threads[1].state = "finished"
    /\ signals # <<>>

\* C13: two calls of extract_colors_by_pixel_count on the same image with the
\* same max_colors and min_pixels return identical lists, on every path,
\* the position-error fallback included.
C13_Deterministic == [][pc' = "repeated" => colors' = colors]_vars

\* the pixel of img_array that the position of the original image falls on
SampledAt(img, position) ==
    PixelAt(img, (position[1] * NewSize(img.w, img.h)[1]) \div img.w,
                 (position[2] * NewSize(img.w, img.h)[2]) \div img.h)

\* C14: the position of every entry of a successful extraction is a coordinate
\* at which the colour occurs: the sampled pixel it falls on is within the
\* similarity threshold of the entry's rgb, whatever the colour's arrangement.
C14_PositionOnColour ==
    RanNormally =>
        \A k \in 1..Len(colors) :
            Similar(SampledAt(image, colors[k].position), colors[k].rgb)

\* C15: a solid 100 x 100 image of colour (255,0,0), analysed with the
\* defaults, yields exactly one entry: rgb (255,0,0), hex code "#FF0000",
\* percentage 100.0.
C15_SolidRed ==
    (/\ RanNormally
     /\ image = RedSquare
     /\ max_colors = DefaultMaxColors /\ min_pixels = DefaultMinPixels)
    => /\ Len(colors) = 1
       /\ colors[1].rgb = <<255, 0, 0>>
       /\ colors[1].hex_code = <<"#", "F", "F", "0", "0", "0", "0">>
       /\ colors[1].percentage = FHundred

\* the red square was analysed with the defaults, the retry having run
C15_Witness ==
    /\ pc = "extracted" /\ RanNormally
    /\ image = RedSquare
    /\ max_colors = DefaultMaxColors /\ min_pixels = DefaultMinPixels
    /\ Len(FilterColors(CountColors(image), min_pixels)) < MinKept

\* C16: an image with max(width, height) > 800 is resized so that its longer
\* side is exactly 800 and its shorter side is the original one scaled by
\* s = 800 / max(width, height), truncated; a smaller image keeps its size.
C16_LongerSideIs800 ==
    (Returned /\ image.ok) =>
        LET sampled == NewSize(image.w, image.h)
        IN  IF Max(image.w, image.h) > MaxSize
            THEN /\ Max(sampled[1], sampled[2]) = MaxSize
                 /\ Min(sampled[1], sampled[2]) =
                        FInt(FMulInt(ScaleFactor(image.w, image.h), Min(image.w, image.h)))
            ELSE sampled = <<image.w, image.h>>

\* the colours of the histogram items with at least threshold pixels
ColoursWith(items, threshold) ==
    {items[k].rgb : k \in {j \in 1..Len(items) : items[j].count >= threshold}}

\* the colours the threshold rule retains
RetainedColours(items, minPixels) ==
    IF Cardinality(ColoursWith(items, minPixels)) < 3
    THEN ColoursWith(items, Max(1, minPixels \div 10))
    ELSE ColoursWith(items, minPixels)

\* the list holds colours of the set retained only, as many as the cap lets
ReturnsRetained(list, retained, maxColors) ==
    /\ {list[k].rgb : k \in 1..Len(list)} \subseteq retained
    /\ Len(list) = Min(maxColors, Cardinality(retained))

InCentralRegion(position, w, h) ==
    /\ w \div 4 <= position[1] /\ position[1] <= (3 * w) \div 4
    /\ h \div 4 <= position[2] /\ position[2] <= (3 * h) \div 4

\* the list agrees with normal in colours, order and percentages, and in
\* positions up to entries placed in the central region of the w x h image
RecoveredFrom(list, normal, w, h) ==
    /\ Len(list) = Len(normal)
    /\ \A k \in 1..Len(list) :
          /\ list[k].rgb = normal[k].rgb
          /\ list[k].hex_code = normal[k].hex_code
          /\ list[k].percentage = normal[k].percentage
          /\ \/ list[k].position = normal[k].position
             \/ InCentralRegion(list[k].position, w, h)

\* C18: a failure while locating one retained colour is recovered per entry:
\* the extraction returns the colours, order and percentages it returns
\* without the failure, never the gray fallback list, and the entry that
\* failed has a position inside the central region of the original image
\* (x in [width/4, 3*width/4], y in [height/4, 3*height/4], integer division).
C18_PositionFailureRecovered ==
    (Returned /\ fault = "position") =>
        RecoveredFrom(colors, ExtractedColors(image, max_colors, min_pixels),
                      image.w, image.h)

\* of two retained colours, the second one got a fallback position
C18_Witness ==
    /\ pc = "extracted" /\ fault = "position"
    /\ Len(colors) >= 2
    /\ colors[2].position # FindColorPosition(image, colors[2].rgb)
    /\ colors[1].position = FindColorPosition(image, colors[1].rgb)

\* the path is one load_image_file has to turn down: unsupported suffix, more
\* than 50 MB, missing, or not loadable
Unacceptable(path) ==
    \/ Lower(path.suffix) \notin SUPPORTED_FORMATS
    \/ path.size_bytes > 50 * 1024 * 1024
    \/ ~path.exists
    \/ ~path.file.ok

\* C19: a file that cannot be accepted is reported and never analysed: for
\* every such path load_image_file emits upload_error and not image_uploaded,
\* no analysis thread is started, current_image_info is unchanged and no
\* history record is added.
C19_RejectedUploadNotAnalysed ==
    [][(upload' # upload /\ Unacceptable(upload'.path)) =>
          /\ upload'.signal = "upload_error"
          /\ UNCHANGED <<analysis_thread, threads, last_request, signals,
                         current_image_info, records>>]_vars

\* a file of 50 MB and one byte was turned down while an earlier result is on
\* display
C19_Witness ==
    /\ upload.signal = "upload_error"
    /\ upload.path.size_bytes = 50 * 1024 * 1024 + 1
    /\ current_image_info # 0
    /\ records # <<>>

\* C20: extraction has no side effects on the analyzer: a call leaves
\* max_colors and min_pixels unchanged (the lowered threshold is local to the
\* call), so a second call on the analyzer returns what the first returned.
C20_NoSideEffects ==
    [][/\ max_colors' = max_colors
       /\ min_pixels' = min_pixels
       /\ (pc' = "repeated" /\ fault' = "none") => colors' = colors]_vars

\* the analyzer was used twice on an image for which the threshold is lowered
C20_Witness ==
    /\ pc = "repeated" /\ fault = "none"
    /\ ~BodyRaises(image)
    /\ Len(FilterColors(CountColors(image), min_pixels)) < MinKept
    /\ colors # <<>>
    /\ Len(colors) < Len(CountColors(image))
F360 == [m |-> <<5, 640, 0, 0, 0, 0>>, e |-> -44]

\* a hue in [0, 360) with the two other components in [0, 100]
InSpaceRange(t) ==
    /\ FLeq(FZero, t[1]) /\ FLess(t[1], F360)
    /\ FLeq(FZero, t[2]) /\ FLeq(t[2], FHundred)
    /\ FLeq(FZero, t[3]) /\ FLeq(t[3], FHundred)

SpacesInRange(rgb, l, v) ==
    /\ InSpaceRange(l)
    /\ InSpaceRange(v)
    /\ (rgb[1] = rgb[2] /\ rgb[2] = rgb[3]) =>
           (l[1] = FZero /\ l[2] = FZero /\ v[1] = FZero /\ v[2] = FZero)

\* C21: hsl and hsv of every returned colour have a hue in [0, 360) and a
\* saturation, lightness and value in [0, 100]; for a gray (r = g = b) the hue
\* and the saturation are both 0.
C21_ColourSpacesInRange ==
    Returned =>
        \A i \in 1..Len(colors) :
            SpacesInRange(colors[i].rgb, hsl(colors[i].rgb), hsv(colors[i].rgb))

\* a returned colour of full saturation, its hue in the last degree below 360
C21_Witness ==
    /\ Returned
    /\ Len(colors) = 1
    /\ colors[1].rgb = <<255, 0, 1>>
    /\ hsl(colors[1].rgb)[2] = FHundred
    /\ hsv(colors[1].rgb)[2] = FHundred
    /\ FLess(FMulInt(FOne, 359), hsl(colors[1].rgb)[1])

\* C22: _dict_to_record(_record_to_dict(r)) equals r for every record r of the
\* history: id, thumbnail_path, created_at and every field of image_info, the
\* colours and the timestamp included, whatever the time of the conversion; and
\* the ImageInfo of a record that was just added, built without a timestamp,
\* carries the tick at which it was built.
C22_RoundTrip ==
    /\ \A i \in 1..Len(history_manager.records) :
          DictToRecord(RecordToDict(history_manager.records[i]), now)
            = history_manager.records[i]
    /\ history_call.op = "add_record" =>
          history_manager.records[1].image_info.timestamp \in {now - 2, now - 1}

\* a record made in this run next to records loaded from the index, one of them
\* with a colour without position and one without thumbnail, converted later
\* than it was made and at a time that is not a whole second
C22_Witness ==
    /\ history_call.op = "add_record"
    /\ Len(history_manager.records) = MaxRecords
    /\ history_manager.records[1].created_at.us # 0
    /\ history_manager.records[1].image_info.timestamp < now
    /\ \E i \in 1..Len(history_manager.records) :
          /\ history_manager.records[i].thumbnail_path = None
          /\ history_manager.records[i].image_info.colors[1].position = None

\* the double after x
FNext(x) == RoundUp(x.m, x.e, TRUE)

\* the doubles p and q are the same or next to each other
WithinOneUlp(p, q) == p = q \/ FNext(p) = q \/ FNext(q) = p

\* 100 * count / total, correctly rounded
ExactPercentage(count, total) ==
    FDiv(FMulInt(FMulInt(FOne, count), 100), FMulInt(FOne, total))

\* the list is what the reference computation gives for the histogram count of
\* the colours eligible, over total pixels
IsReferenceResult(list, eligible, count, total, maxColors) ==
    /\ Len(list) = Min(maxColors, Cardinality(eligible))
    /\ \A i \in 1..Len(list) :
          /\ list[i].rgb \in eligible
          /\ \A j \in (i + 1)..Len(list) :
                list[i].rgb # list[j].rgb /\ count[list[i].rgb] >= count[list[j].rgb]
          /\ \A e \in eligible \ {list[j].rgb : j \in 1..Len(list)} :
                count[e] <= count[list[i].rgb]
          /\ WithinOneUlp(list[i].percentage, ExactPercentage(count[list[i].rgb], total))

IdsOf(manager) == {manager.records[i].id : i \in 1..Len(manager.records)}

\* the step from the manager old to the manager new is an add_record: the new
\* record is in front, the others follow in their order, and the oldest one
\* and its thumbnail, nothing else, left when the list was full
AddsInFront(old, new) ==
    /\ new.records # <<>>
    /\ new.records[1].id \notin IdsOf(old)
    /\ IF Len(old.records) = MaxRecords
       THEN /\ Tail(new.records) = SubSeq(old.records, 1, MaxRecords - 1)
            /\ new.thumbnails \cap IdsOf(old)
                 = (old.thumbnails \cap IdsOf(old)) \ {old.records[MaxRecords].id}
       ELSE /\ Tail(new.records) = old.records
            /\ new.thumbnails \cap IdsOf(old) = old.thumbnails \cap IdsOf(old)

RemovesOnlyId(old, new, record_id, ret) ==
    IF record_id \notin IdsOf(old)
    THEN ret = FALSE /\ new = old
    ELSE /\ ret = TRUE
         /\ new.records = SelectSeq(old.records, LAMBDA r : r.id # record_id)
         /\ Len(new.records) = Len(old.records) - 1
         /\ new.thumbnails = old.thumbnails \ {record_id}

IdsWithThumbnail(manager) ==
    {manager.records[i].id :
        i \in {j \in 1..Len(manager.records) : manager.records[j].thumbnail_path # None}}

\* C29: file operations succeeding, the thumbnail files in the thumbnails
\* directory are those of the records in the list that have a thumbnail_path:
\* none is left of a record removed, evicted or cleared, and none is missing.
C29_ThumbnailsMatchRecords ==
    history_manager.thumbnails = IdsWithThumbnail(history_manager)

\* a full list with thumbnails got one more record and was cleared
C29_Witness ==
    /\ history_call.op = "clear_all"
    /\ now = StartTime + 2
    /\ history_manager.issued = MaxRecords + 1
    /\ history_manager.records = <<>>
    /\ history_manager.thumbnails = {}

\* C26: every temporary file made for a pasted image is removed by
\* cleanup_temp_files, which the timer runs every five minutes, once the file
\* has not been modified for more than an hour: after a run of the cleanup no
\* file of a pasted image is older than that.
C26_PastedFilesRemoved ==
    now > StartTime =>
        \A f \in PastedFiles(temp_dir) : now - f.mtime <= MaxAge * Ticks

\* C27: a single click on a colour of the colour list copies its value and
\* makes the canvas highlight that colour (highlightColor sets _selectedColor
\* to it), and a double click clears the highlight (clearHighlight sets
\* _selectedColor to None), as the usage hint of the list says.
C27_ClickHighlights ==
    /\ last_click.on = "list" =>
          clipboard = last_click.color /\ selected_color = last_click.color
    /\ last_click.on = "list_double" => selected_color = None


\* C28: every decodable image of width >= 1 and height >= 1, the 1601 x 1 one
\* included, is sampled at a size of at least 1 x 1, so a call in which
\* nothing else fails does not return the gray fallback.
C28_SampleNotEmpty ==
    (pc = "extracted" /\ fault = "none" /\ image.ok /\ image.w >= 1 /\ image.h >= 1) =>
        /\ NewSize(image.w, image.h)[1] >= 1
        /\ NewSize(image.w, image.h)[2] >= 1
        /\ colors # FallbackColors


\* an analysis was started and neither on_analysis_completed nor
\* on_analysis_failed has run for it yet: its thread has not emitted, or its
\* signal waits in the queue of the main thread
AnalysisPending ==
    \/ \E t \in 1..Len(threads) : threads[t].state = "running"
    \/ signals # <<>>

\* C30: the progress bar is visible whenever an analysis was started and its
\* completion or failure handler has not run yet, whatever the order of
\* uploads, thread exits and deliveries of the queued signals.
C30_ProgressWhilePending == AnalysisPending => progress_bar

====
